---- MODULE Spec2Model ----
(***************************************************************************)
(* Chevening course finder: a single-page form that sends a CV file to a   *)
(* generative model and renders the JSON answer.                           *)
(*                                                                         *)
(* The repository holds two variants of the page script: src/index.tsx and *)
(* the older src/unnamed/part_000.  The variable `variant` says which one  *)
(* the page names.  src/index.tsx as written is not a script: line 362     *)
(* closes a template literal with } instead of a backtick, the module does *)
(* not parse and none of its statements run (ScriptLoads).  The operators  *)
(* still follow the text of its functions; only part_000 ever runs them.   *)
(* The page state is the DOM (record `dom`), the interval                  *)
(* timers of the runtime (record `timers`), the wall clock `now`, the file *)
(* input's FileList `files`, and one record per invocation of the submit   *)
(* listener (`handlers`), whose pc is the await it is suspended at.        *)
(*                                                                         *)
(* HTML text is a sequence of tokens (tags and character data), built by   *)
(* concatenation as the template literals build it.  Character data drawn  *)
(* from the model's answer is taken from texts without markup.             *)
(***************************************************************************)
EXTENDS Integers, Sequences, FiniteSets, TLC

VARIABLES variant, ai, listeners, dom, timers, now, ticks, files, handlers,
          lastOutcome, everRendered, modelCalls, submits, entered, data

vars == <<variant, ai, listeners, dom, timers, now, ticks, files, handlers,
          lastOutcome, everRendered, modelCalls, submits, entered, data>>

\* ------------------------------------------------------------------ bounds

\* submit events dispatched on the form in one behaviour
MaxSubmits == 2
\* seconds that pass on the page in one behaviour
MaxTicks == 2
\* longest list inside a ResultDocument drawn as renderer input
MaxList == 2
\* longest chevening_trio drawn as renderer input
MaxTrio == 3

\* --------------------------------------------------------------- constants

Variants == {"index.tsx", "part_000"}

\* Clock values are milliseconds relative to 2025-10-07T12:00:00Z: the
\* absolute value 1759838400000 does not fit TLC's 32-bit integers, and
\* updateCountdown only uses the difference deadline - now.
deadline == 0

CountdownPeriod == 1000

MsPerSecond == 1000
MsPerMinute == 1000 * 60
MsPerHour == 1000 * 60 * 60
MsPerDay == 1000 * 60 * 60 * 24

\* Clock values at page load, relative to the deadline: more than a day
\* before, two ticks before, exactly at, and after the deadline.
StartClocks == {0 - (MsPerDay + MsPerHour + MsPerMinute + 1500), 0 - 2000, 0, 5000}

loadingMessages ==
  << "Analyzing your CV against Chevening criteria...",
     "Searching the official course database...",
     "Scoring and ranking top matches...",
     "Compiling your personalized strategy...",
     "This may take a moment. Great recommendations are on their way!" >>

PDF == "application/pdf"
DOCX == "application/vnd.openxmlformats-officedocument.wordprocessingml.document"

allowedTypes == {PDF, DOCX}

MsgPleaseUpload == "Please upload your CV file."
MsgInvalidType == "Invalid file type. Please upload a PDF or DOCX file."
MsgFallback == "Could not process the file or parse the response from the model."
DeadlinePassed == "The deadline has passed."

\* setInterval handles are positive; an unassigned handle variable is falsy.
NoHandle == 0


\* -------------------------------------------------------- JavaScript values

Has(obj, f) == f \in DOMAIN obj

\* `${obj.f}` in a template literal: a missing property prints as "undefined".
Interp(obj, f) == IF Has(obj, f) THEN obj[f] ELSE "undefined"

\* `${obj.f}` for a number-valued property.
InterpNum(obj, f) == IF Has(obj, f) THEN ToString(obj[f]) ELSE "undefined"

RECURSIVE Flatten(_)
\* Array.prototype.join('') over an array of HTML strings
Flatten(ss) == IF ss = <<>> THEN <<>> ELSE Head(ss) \o Flatten(Tail(ss))

\* The value of an expression that may throw: the HTML it returns, or a throw.
Ok(html) == [threw |-> FALSE, html |-> html]
Throw == [threw |-> TRUE, html |-> <<>>]
\* The text does not parse: there is no function to call and no value.
SyntaxError == [threw |-> TRUE, html |-> <<>>, syntax |-> TRUE]

\* TLC cannot index into a string, so every text a programme name or a fee
\* can take is listed with its characters.
Spell(s) ==
  CASE s = "MBA" -> <<"M", "B", "A">>
    [] s = "Exec Mba" -> <<"E", "x", "e", "c", " ", "M", "b", "a">>
    [] s = "MSc AI" -> <<"M", "S", "c", " ", "A", "I">>
    [] s = "MB Arts" -> <<"M", "B", " ", "A", "r", "t", "s">>
    [] s = "GBP 18000" -> <<"G", "B", "P", " ", "1", "8", "0", "0", "0">>
    [] s = "Verify on site" ->
         <<"V", "e", "r", "i", "f", "y", " ", "o", "n", " ", "s", "i", "t", "e">>
    [] s = "" -> <<>>
    [] OTHER -> <<s>>

UpperCase == <<"A", "B", "C", "E", "G", "I", "M", "P", "S", "V">>
LowerCase == <<"a", "b", "c", "e", "g", "i", "m", "p", "s", "v">>

\* String.prototype.toLowerCase, on the characters of a text
toLowerCase(cs) ==
  [i \in 1..Len(cs) |->
     IF \E k \in 1..Len(UpperCase) : UpperCase[k] = cs[i]
     THEN LowerCase[CHOOSE k \in 1..Len(UpperCase) : UpperCase[k] = cs[i]]
     ELSE cs[i]]

\* String.prototype.includes
includes(cs, needle) ==
  \E i \in 0..(Len(cs) - Len(needle)) :
     \A j \in 1..Len(needle) : cs[i + j] = needle[j]

\* <li>${x}</li> for every x of the list, joined
LiList(list) == Flatten([i \in 1..Len(list) |-> <<"<li>", list[i], "</li>">>])

\* ------------------------------------------------------------- the renderer

H2(title) == <<"<h2>", title, "</h2>">>

TitleProfile == "CV Analysis vs. Chevening Criteria"
TitleTrio == "Your Recommended Chevening Trio"
TitleRanked == "Top Ranked Courses"
TitleBullets == "Personal Statement Talking Points"
TitleAlternatives == "Alternative Options"
TitleNotes == "Important Notes"

renderProfileAnalysis(profile) ==
  IF ~Has(profile, "strengths") \/ ~Has(profile, "gaps") THEN Ok(<<>>)
  ELSE Ok(<<"<div id=profile-analysis-section class=result-category>">>
          \o H2(TitleProfile)
          \o <<"<div class=profile-columns>",
               "<div class=profile-column>", "<h3>Strengths</h3>", "<ul>">>
          \o LiList(profile.strengths)
          \o <<"</ul>", "</div>",
               "<div class=profile-column>", "<h3>Potential Gaps</h3>", "<ul>">>
          \o LiList(profile.gaps)
          \o <<"</ul>", "</div>", "</div>", "</div>">>)

MbaWarning == <<"<p class=mba-warning>", "MBA Fee Cap", "</p>">>
TrioWarning == <<"<p class=trio-warning>", "All three choices are from the same university", "</p>">>

\* one element of trio.map(...) in renderTrio
TrioCard(v, course) ==
  IF v = "part_000"
  THEN Ok(<<"<div class=trio-card>", "<h3>", Interp(course, "programme"), "</h3>",
            "<p class=university>", Interp(course, "university"), "</p>",
            "<p>", Interp(course, "why_this_trio"), "</p>", "</div>">>)
  ELSE IF ~Has(course, "programme") THEN Throw
  ELSE LET isMBA == includes(toLowerCase(Spell(course.programme)), <<"m", "b", "a">>)
       IN Ok(<<"<div class=trio-card>", "<h3>", course.programme, "</h3>",
               "<p class=university>", Interp(course, "university"), "</p>",
               "<p>", Interp(course, "why_this_trio"), "</p>">>
             \o (IF isMBA THEN MbaWarning ELSE <<>>)
             \o <<"</div>">>)

renderTrio(v, trio) ==
  LET universities == {Interp(trio[i], "university") : i \in 1..Len(trio)}
      singleUniversityWarning ==
        IF v = "index.tsx" /\ Cardinality(universities) = 1 /\ Len(trio) > 1
        THEN TrioWarning ELSE <<>>
      cards == [i \in 1..Len(trio) |-> TrioCard(v, trio[i])]
  IN IF \E i \in 1..Len(trio) : cards[i].threw THEN Throw
     ELSE Ok(<<"<div class=result-category>">> \o H2(TitleTrio)
             \o singleUniversityWarning
             \o Flatten([i \in 1..Len(trio) |-> cards[i].html])
             \o <<"</div>">>)

\* one element of courses.map(...) in renderRankedCourses
CourseCard(v, course) ==
  LET head == <<"<div class=course-card>", "<h3>",
                InterpNum(course, "rank"), ". ", Interp(course, "programme"), "</h3>",
                "<p class=university>", Interp(course, "university"), "</p>">>
      details(fee) == <<"<div class=details>",
                   "<span>", Interp(course, "city"), "</span>",
                   "<span>", Interp(course, "start_cycle"), "</span>",
                   "<span>", InterpNum(course, "duration_months"), " months", "</span>">>
                   \o fee \o <<"</div>">>
      rationale == <<"<div class=chevening-rationale>", "<ul>">>
                   \o LiList(course.chevening_rationale)
                   \o <<"</ul>", "</div>",
                        "<a>", Interp(course, "url"), "</a>", "</div>">>
  IN IF v = "part_000"
     THEN IF ~Has(course, "chevening_rationale") THEN Throw
          ELSE Ok(head \o details(<<"<span>", Interp(course, "fee_gbp"), "</span>">>)
                  \o rationale)
     ELSE
       LET hasCheck == Has(course, "eligibility_check")
           eligibilityBadge ==
             IF hasCheck
             THEN IF Has(course.eligibility_check, "is_eligible")
                     /\ course.eligibility_check.is_eligible
                  THEN <<"<span class=eligibility-badge>", "Chevening-eligible", "</span>">>
                  ELSE <<"<span class=eligibility-badge ineligible>", "Ineligible", "</span>">>
             ELSE <<>>
           eligibilityReason ==
             IF hasCheck /\ ~(Has(course.eligibility_check, "is_eligible")
                              /\ course.eligibility_check.is_eligible)
             THEN <<"<p class=ineligible-reason>",
                    Interp(course.eligibility_check, "reason"), "</p>">>
             ELSE <<>>
           \* '' is falsy: an empty fee prints as N/A
           feeTruthy == Has(course, "fee_gbp") /\ course.fee_gbp # ""
           feeDisplay ==
             IF feeTruthy /\ includes(toLowerCase(Spell(course.fee_gbp)),
                                      <<"v", "e", "r", "i", "f", "y">>)
             THEN <<"<span>", "<span class=verify-chip>", course.fee_gbp, "</span>", "</span>">>
             ELSE <<"<span>", IF feeTruthy THEN course.fee_gbp ELSE "N/A", "</span>">>
           scoreBreakdown ==
             IF Has(course, "score_breakdown") /\ course.score_breakdown # ""
             THEN <<"<details class=score-breakdown>", course.score_breakdown, "</details>">>
             ELSE <<>>
       IN IF ~Has(course, "programme") THEN Throw
          ELSE IF ~Has(course, "chevening_rationale") THEN Throw
          ELSE Ok(head \o eligibilityBadge \o eligibilityReason
                  \o (IF includes(toLowerCase(Spell(course.programme)), <<"m", "b", "a">>)
                      THEN MbaWarning ELSE <<>>)
                  \o details(feeDisplay) \o scoreBreakdown \o rationale)

renderRankedCourses(v, courses) ==
  LET cards == [i \in 1..Len(courses) |-> CourseCard(v, courses[i])]
  IN IF \E i \in 1..Len(courses) : cards[i].threw THEN Throw
     ELSE Ok(<<"<div class=result-category>">> \o H2(TitleRanked)
             \o Flatten([i \in 1..Len(courses) |-> cards[i].html])
             \o <<"</div>">>)

renderBullets(bullets) ==
  IF ~Has(bullets, "leadership") \/ ~Has(bullets, "networking")
     \/ ~Has(bullets, "career_plan")
  THEN Throw
  ELSE Ok(<<"<div class=result-category personal-statement-bullets>">>
          \o H2(TitleBullets)
          \o <<"<h4>Leadership</h4>", "<ul>">> \o LiList(bullets.leadership) \o <<"</ul>">>
          \o <<"<h4>Networking</h4>", "<ul>">> \o LiList(bullets.networking) \o <<"</ul>">>
          \o <<"<h4>Career Plan</h4>", "<ul>">> \o LiList(bullets.career_plan) \o <<"</ul>">>
          \o <<"</div>">>)

\* In index.tsx the template literal of the map callback, opened on line
\* 355, is closed on line 362 by } instead of a backtick: the text is a
\* syntax error.  part_000 has the backtick (line 328).
renderAlternatives(v, alternatives) ==
  IF v = "index.tsx" THEN SyntaxError
  ELSE
  Ok(<<"<div class=result-category>">> \o H2(TitleAlternatives)
     \o Flatten([i \in 1..Len(alternatives) |->
          <<"<div class=course-card>", "<h3>", Interp(alternatives[i], "programme"), "</h3>",
            "<p class=university>", Interp(alternatives[i], "university"), "</p>",
            "<p>", Interp(alternatives[i], "why_consider"), "</p>",
            "<a>", Interp(alternatives[i], "url"), "</a>", "</div>">>])
     \o <<"</div>">>)

\* A module script with a syntax error anywhere in it is not run at all.
ScriptLoads(v) == "syntax" \notin DOMAIN renderAlternatives(v, <<>>)

renderNotes(notes) ==
  Ok(<<"<div class=result-category>">> \o H2(TitleNotes)
     \o <<"<ul>">> \o LiList(notes) \o <<"</ul>", "</div>">>)

\* The sections renderResults looks at, in the order of its if statements.
SectionOrder(v) ==
  IF v = "part_000"
  THEN <<"chevening_trio", "ranked_courses", "personal_statement_bullets",
         "alternatives", "notes">>
  ELSE <<"profile", "chevening_trio", "ranked_courses", "personal_statement_bullets",
         "alternatives", "notes">>

\* the fragment generator renderResults calls for one section
renderSection(v, name, value) ==
  CASE name = "profile" -> renderProfileAnalysis(value)
    [] name = "chevening_trio" -> renderTrio(v, value)
    [] name = "ranked_courses" -> renderRankedCourses(v, value)
    [] name = "personal_statement_bullets" -> renderBullets(value)
    [] name = "alternatives" -> renderAlternatives(v, value)
    [] name = "notes" -> renderNotes(value)

RECURSIVE renderFrom(_, _, _, _)
\* renderResults from its k-th if statement on, with `html` in the results area
renderFrom(v, d, k, html) ==
  IF k > Len(SectionOrder(v)) THEN Ok(html)
  ELSE LET name == SectionOrder(v)[k] IN
       IF ~Has(d, name) THEN renderFrom(v, d, k + 1, html)
       ELSE LET r == renderSection(v, name, d[name]) IN
            IF r.threw THEN [threw |-> TRUE, html |-> html]
            ELSE renderFrom(v, d, k + 1, html \o r.html)

\* renderResults(data): the content of the results area when it returns or
\* throws.  JSON null has no properties to read: the first test throws.
\* A script that does not load has no renderResults to call.
renderResults(v, d) ==
  IF ~ScriptLoads(v) THEN SyntaxError
  ELSE IF Has(d, "null") THEN Throw ELSE renderFrom(v, d, 1, <<>>)


\* ------------------------------------------------------- timers and the DOM

\* window.setInterval: the handle it returns is timers.next
setInterval(tm, cb) ==
  [tm EXCEPT !.next = @ + 1, !.intervals = (tm.next :> cb) @@ @]

\* window.clearInterval: unknown handles (undefined included) are ignored
clearInterval(tm, h) ==
  [tm EXCEPT !.intervals = [x \in (DOMAIN @) \ {h} |-> @[x]]]

RotateCallback == [fn |-> "rotate", messageIndex |-> 0]
CountdownCallback == [fn |-> "updateCountdown", messageIndex |-> 0]

\* handles of the running intervals that run the callback fn
Running(tm, fn) == {h \in DOMAIN tm.intervals : tm.intervals[h].fn = fn}

\* the text updateCountdown writes before the deadline
FormatCountdown(diff) ==
  LET days == diff \div MsPerDay
      hours == (diff % MsPerDay) \div MsPerHour
      minutes == (diff % MsPerHour) \div MsPerMinute
      seconds == (diff % MsPerMinute) \div MsPerSecond
  IN ToString(days) \o "d " \o ToString(hours) \o "h "
     \o ToString(minutes) \o "m " \o ToString(seconds) \o "s"

updateCountdown(e, t) ==
  LET diff == deadline - t IN
  IF diff <= 0
  THEN [e EXCEPT !.dom.deadlineCountdown = DeadlinePassed,
                 !.timers = IF e.timers.countdownInterval # NoHandle
                            THEN clearInterval(@, e.timers.countdownInterval)
                            ELSE @]
  ELSE [e EXCEPT !.dom.deadlineCountdown = FormatCountdown(diff)]

setDeadline(e, t) ==
  LET cleared == IF e.timers.countdownInterval # NoHandle
                 THEN clearInterval(e.timers, e.timers.countdownInterval)
                 ELSE e.timers
      started == [setInterval(cleared, CountdownCallback)
                    EXCEPT !.countdownInterval = cleared.next]
  IN updateCountdown([e EXCEPT !.timers = started], t)

showLoading_KeepsSubmit(e, show) ==
  IF show
  THEN [dom |-> [e.dom EXCEPT !.inputHidden = TRUE, !.resultsHTML = <<>>,
                              !.errorHidden = TRUE, !.loadingHidden = FALSE,
                              !.loadingMessage = loadingMessages[1]],
        timers |-> [setInterval(e.timers, RotateCallback)
                      EXCEPT !.messageInterval = e.timers.next]]
  ELSE [dom |-> [e.dom EXCEPT !.loadingHidden = TRUE, !.inputHidden = FALSE,
                              !.submitDisabled = FALSE],
        timers |-> clearInterval(e.timers, e.timers.messageInterval)]

showLoading_KeepsTimer(e, show) ==
  IF show
  THEN [dom |-> [e.dom EXCEPT !.inputHidden = TRUE, !.resultsHTML = <<>>,
                              !.errorHidden = TRUE, !.loadingHidden = FALSE,
                              !.submitDisabled = TRUE,
                              !.loadingMessage = loadingMessages[1]],
        timers |-> [setInterval(e.timers, RotateCallback)
                      EXCEPT !.messageInterval = e.timers.next]]
  ELSE [dom |-> [e.dom EXCEPT !.loadingHidden = TRUE, !.inputHidden = FALSE,
                              !.submitDisabled = FALSE],
        timers |-> e.timers]

\* showLoading(true) without errorSection.classList.add('hidden')
showLoading_KeepsError(e, show) ==
  IF show
  THEN [dom |-> [e.dom EXCEPT !.inputHidden = TRUE, !.resultsHTML = <<>>,
                              !.loadingHidden = FALSE,
                              !.submitDisabled = TRUE,
                              !.loadingMessage = loadingMessages[1]],
        timers |-> [setInterval(e.timers, RotateCallback)
                      EXCEPT !.messageInterval = e.timers.next]]
  ELSE [dom |-> [e.dom EXCEPT !.loadingHidden = TRUE, !.inputHidden = FALSE,
                              !.submitDisabled = FALSE],
        timers |-> clearInterval(e.timers, e.timers.messageInterval)]

\* showLoading(true) without resultsSection.innerHTML = ''
showLoading_KeepsResults(e, show) ==
  IF show
  THEN [dom |-> [e.dom EXCEPT !.inputHidden = TRUE,
                              !.errorHidden = TRUE, !.loadingHidden = FALSE,
                              !.submitDisabled = TRUE,
                              !.loadingMessage = loadingMessages[1]],
        timers |-> [setInterval(e.timers, RotateCallback)
                      EXCEPT !.messageInterval = e.timers.next]]
  ELSE [dom |-> [e.dom EXCEPT !.loadingHidden = TRUE, !.inputHidden = FALSE,
                              !.submitDisabled = FALSE],
        timers |-> clearInterval(e.timers, e.timers.messageInterval)]

showLoading(e, show) ==
  IF show
  THEN [dom |-> [e.dom EXCEPT !.inputHidden = TRUE, !.resultsHTML = <<>>,
                              !.errorHidden = TRUE, !.loadingHidden = FALSE,
                              !.submitDisabled = TRUE,
                              !.loadingMessage = loadingMessages[1]],
        timers |-> [setInterval(e.timers, RotateCallback)
                      EXCEPT !.messageInterval = e.timers.next]]
  ELSE [dom |-> [e.dom EXCEPT !.loadingHidden = TRUE, !.inputHidden = FALSE,
                              !.submitDisabled = FALSE],
        timers |-> clearInterval(e.timers, e.timers.messageInterval)]

\* the content showError gives the error panel
ErrorHTML(message) ==
  <<"<p>", "<strong>An error occurred:</strong> ", message, "</p>",
    "<p>", "Please try again.", "</p>">>

showError_KeepsResults(e, message) ==
  [e EXCEPT !.dom.errorHTML = ErrorHTML(message), !.dom.errorHidden = FALSE]

showError(e, message) ==
  [e EXCEPT !.dom.resultsHTML = <<>>,
            !.dom.errorHTML = ErrorHTML(message),
            !.dom.errorHidden = FALSE]

\* the callback showLoading(true) hands to setInterval, run for handle h
rotate(e, h) ==
  LET messageIndex == (e.timers.intervals[h].messageIndex + 1) % Len(loadingMessages)
  IN [e EXCEPT !.timers.intervals[h].messageIndex = messageIndex,
               !.dom.loadingMessage = loadingMessages[messageIndex + 1]]


\* ------------------------------------------------------------ the page load

\* The page as the markup delivers it, before the script runs: the form is
\* shown, nothing is loading, no error and no results.  (The pitfalls modal
\* has no part in the submission and is left out.)
InitialDom ==
  [inputHidden |-> FALSE, loadingHidden |-> TRUE, errorHidden |-> TRUE,
   errorHTML |-> <<>>, resultsHTML |-> <<>>, submitDisabled |-> FALSE,
   loadingMessage |-> "", deadlineCountdown |-> "", inputHTML |-> "form",
   fileNameDisplay |-> "",
   fileUploadLabel |-> "Click to select a file"]

\* messageInterval and countdownInterval are declared without a value.
InitialTimers ==
  [next |-> 1, intervals |-> <<>>, messageInterval |-> NoHandle,
   countdownInterval |-> NoHandle]

\* The top-level statements of the script, run once at page load with the
\* clock reading t; a says whether new GoogleGenAI(...) returned a client.
\* When the script does not load, the page stays as the markup delivers it.
\* part_000 creates the client in a const declaration outside any try: when
\* the constructor throws, the script stops there, before it registers a
\* listener.
AppStart(v, a, t) ==
  IF ~ScriptLoads(v)
  THEN [env |-> [dom |-> InitialDom, timers |-> InitialTimers], listeners |-> {}]
  ELSE IF v = "part_000"
  THEN [env |-> [dom |-> InitialDom, timers |-> InitialTimers],
        listeners |-> IF a THEN {"change", "submit"} ELSE {}]
  ELSE LET e == setDeadline([dom |-> InitialDom, timers |-> InitialTimers], t) IN
       IF a
       THEN [env |-> e,
             listeners |-> {"closeModal", "modalOverlay", "pitfalls", "change", "submit"}]
       ELSE [env |-> [e EXCEPT !.dom.inputHTML = "config-error"],
             listeners |-> {"closeModal", "modalOverlay"}]

\* ----------------------------------------------------- the submit listener

Env == [dom |-> dom, timers |-> timers]

\* The two checks that open the submit listener: the message of the error
\* shown, or "" when the submission passes.
ValidationError(fs) ==
  IF fs = <<>> THEN MsgPleaseUpload
  ELSE IF fs[1].type \notin allowedTypes THEN MsgInvalidType
  ELSE ""

\* What a FileReader can hold at loadend: a data URL split at its comma, or
\* null after a read error.
ReadResults(file) ==
  { [isNull |-> TRUE, parts |-> <<>>],
    [isNull |-> FALSE, parts |-> <<"data:" \o file.type \o ";base64", "Q1Y=">>] }

\* The promise fileToGenerativePart returns, once the reader has fired
\* loadend with `result`.  The executor only ever calls resolve; with a null
\* result, split throws inside the event handler and resolve is not reached.
fileToGenerativePart(file, result) ==
  IF result.isNull
  THEN [state |-> "pending"]
  ELSE [state |-> "fulfilled",
        value |-> [data |-> result.parts[2], mimeType |-> file.type]]

WellFormedCourse ==
  [rank |-> 1, university |-> "Leeds", programme |-> "MSc AI", city |-> "Leeds",
   url |-> "https://leeds.example/ai", start_cycle |-> "Sep 2026",
   duration_months |-> 12, fee_gbp |-> "GBP 18000",
   chevening_rationale |-> <<"builds networks">>,
   eligibility_check |-> [is_eligible |-> TRUE, reason |-> "Passes all checks"],
   score_breakdown |-> "strong fit"]

FullDoc ==
  [profile |-> [strengths |-> <<"led a team">>, gaps |-> <<"no UK ties">>],
   chevening_trio |-> <<[university |-> "Leeds", programme |-> "MSc AI",
                         why_this_trio |-> "best fit"]>>,
   ranked_courses |-> <<WellFormedCourse>>,
   personal_statement_bullets |->
     [leadership |-> <<"led a team">>, networking |-> <<"alumni">>,
      career_plan |-> <<"return home">>],
   alternatives |-> <<[university |-> "York", programme |-> "MB Arts",
                       url |-> "https://york.example", why_consider |-> "cheaper"]>>,
   notes |-> <<"fees change">>]

\* Parses, but its bullets lack the lists renderBullets maps over.
BrokenBulletsDoc ==
  [chevening_trio |-> <<[university |-> "Leeds", programme |-> "MBA",
                         why_this_trio |-> "best fit"]>>,
   personal_statement_bullets |-> [networking |-> <<"alumni">>],
   notes |-> <<"fees change">>]

NotesDoc == [notes |-> <<"fees change", "apply early">>]

\* The documents the model service answers with in Spec.
ResponseDocs == {FullDoc, BrokenBulletsDoc, NotesDoc}

\* How the promise of ai.models.generateContent can settle.
ModelOutcomes ==
  { [kind |-> "reject_error"], [kind |-> "reject_other"],
    [kind |-> "no_text"], [kind |-> "malformed"] }
  \cup { [kind |-> "json", doc |-> d] : d \in ResponseDocs }

\* The try block from the second await on: what it leaves in the results
\* area, whether it threw, and the message the catch block shows.
tryBlock(v, html, o) ==
  CASE o.kind = "reject_error" ->
         [threw |-> TRUE, html |-> html, message |-> "503 Service Unavailable"]
    [] o.kind = "reject_other" ->
         [threw |-> TRUE, html |-> html, message |-> MsgFallback]
    [] o.kind = "no_text" ->
         [threw |-> TRUE, html |-> html,
          message |-> "Cannot read properties of undefined (reading 'trim')"]
    [] o.kind = "malformed" ->
         [threw |-> TRUE, html |-> html, message |-> "Unexpected token in JSON"]
    [] o.kind = "json" ->
         LET r == renderResults(v, o.doc) IN
         [threw |-> r.threw, html |-> r.html,
          message |-> IF r.threw THEN "Cannot read properties of undefined (reading 'map')"
                      ELSE ""]

\* catch and finally, after the try block ended as `t`
catchFinally(e, t) ==
  LET e1 == [e EXCEPT !.dom.resultsHTML = t.html]
      e2 == IF t.threw THEN showError(e1, t.message) ELSE e1
  IN showLoading(e2, FALSE)


\* --------------------------------------------------------------- the inputs

\* the files a user can pick
Files ==
  { [name |-> "cv.pdf", type |-> PDF], [name |-> "cv.docx", type |-> DOCX],
    [name |-> "photo.png", type |-> "image/png"] }

\* cvFileInput.files: empty, or the one file picked
FileLists == {<<>>} \cup {<<f>> : f \in Files}

\* what cvFileInput.files?.[0] gives
FirstFile(fs) == IF fs = <<>> THEN [name |-> "undefined", type |-> "undefined"] ELSE fs[1]

\* before any response has been parsed there is no data
NoData == [null |-> TRUE]

\* ----------------------------------------------------------------- actions

\* The user picks a file or clears the selection; the change listener, when
\* registered, updates the label.
SelectFile ==
  \E fs \in FileLists :
    /\ fs # files
    /\ files' = fs
    /\ dom' = IF "change" \in listeners
              THEN IF Len(fs) > 0
                   THEN [dom EXCEPT !.fileNameDisplay = "Selected: " \o fs[1].name,
                                    !.fileUploadLabel = "Change file"]
                   ELSE [dom EXCEPT !.fileNameDisplay = "",
                                    !.fileUploadLabel = "Click to select a file"]
              ELSE dom
    /\ UNCHANGED <<variant, ai, listeners, timers, now, ticks, handlers, lastOutcome,
                   everRendered, modelCalls, submits, entered, data>>

\* A submit event on a form without a submit listener: nothing prevents the
\* browser's default action, which loads the page again.
SubmitDefault ==
  /\ submits < MaxSubmits
  /\ ~dom.submitDisabled
  /\ "submit" \notin listeners
  /\ submits' = submits + 1
  /\ LET s == AppStart(variant, ai, now) IN
       /\ dom' = s.env.dom
       /\ timers' = s.env.timers
       /\ listeners' = s.listeners
  /\ files' = <<>>
  /\ handlers' = <<>>
  /\ UNCHANGED <<variant, ai, now, ticks, lastOutcome, everRendered, modelCalls,
                 entered, data>>

\* A submit event runs the submit listener up to its first await.  The
\* browser dispatches no submit event while the submit button is disabled.
Submit ==
  /\ submits < MaxSubmits
  /\ ~dom.submitDisabled
  /\ "submit" \in listeners
  /\ submits' = submits + 1
  /\ LET msg == ValidationError(files) IN
       IF msg # ""
       THEN /\ dom' = showError(Env, msg).dom
            /\ timers' = showError(Env, msg).timers
            /\ lastOutcome' = "invalid"
            /\ UNCHANGED <<handlers, entered>>
       ELSE /\ dom' = showLoading(Env, TRUE).dom
            /\ timers' = showLoading(Env, TRUE).timers
            /\ handlers' = Append(handlers,
                 [pc |-> "await_file", file |-> FirstFile(files), read |-> "reading"])
            /\ entered' = entered + 1
            /\ UNCHANGED lastOutcome
  /\ UNCHANGED <<variant, ai, listeners, now, ticks, files, everRendered,
                 modelCalls, data>>

Without(seq, i) == [j \in 1..(Len(seq) - 1) |-> IF j < i THEN seq[j] ELSE seq[j + 1]]

\* The handler without its await on fileToGenerativePart: it calls the model
\* as soon as the FileReader is done, whatever the promise has become.
ReaderLoadEnd_NoAwait(i) ==
  /\ handlers[i].pc = "await_file"
  /\ handlers[i].read = "reading"
  /\ \E result \in ReadResults(handlers[i].file) :
       /\ handlers' = [handlers EXCEPT ![i].pc = "await_model",
                         ![i].read = IF result.isNull THEN "failed" ELSE "loaded"]
       /\ modelCalls' = modelCalls + 1
       /\ UNCHANGED <<dom, timers, lastOutcome>>
  /\ UNCHANGED <<variant, ai, listeners, now, ticks, files, everRendered, submits,
                 entered, data>>

\* The FileReader of handler i fires loadend.  When the promise of
\* fileToGenerativePart is fulfilled the handler goes on to call the model;
\* when it is rejected the handler runs catch and finally; while it stays
\* pending the handler stays at its await.
ReaderLoadEnd(i) ==
  /\ handlers[i].pc = "await_file"
  /\ handlers[i].read = "reading"
  /\ \E result \in ReadResults(handlers[i].file) :
       LET p == fileToGenerativePart(handlers[i].file, result) IN
       CASE p.state = "fulfilled" ->
              /\ handlers' = [handlers EXCEPT ![i].pc = "await_model", ![i].read = "loaded"]
              /\ modelCalls' = modelCalls + 1
              /\ UNCHANGED <<dom, timers, lastOutcome>>
         [] p.state = "rejected" ->
              LET e == catchFinally(Env, [threw |-> TRUE, html |-> dom.resultsHTML,
                                          message |-> MsgFallback]) IN
              /\ dom' = e.dom
              /\ timers' = e.timers
              /\ handlers' = Without(handlers, i)
              /\ lastOutcome' = "read_rejected"
              /\ UNCHANGED modelCalls
         [] p.state = "pending" ->
              /\ handlers' = [handlers EXCEPT ![i].read =
                                IF result.isNull THEN "failed" ELSE "loaded"]
              /\ UNCHANGED <<dom, timers, lastOutcome, modelCalls>>
  /\ UNCHANGED <<variant, ai, listeners, now, ticks, files, everRendered, submits,
                 entered, data>>

\* The promise of generateContent settles for handler i: the rest of the try
\* block, then catch and finally, run without interruption.
ModelSettle(i) ==
  /\ handlers[i].pc = "await_model"
  /\ \E o \in ModelOutcomes :
       LET t == tryBlock(variant, dom.resultsHTML, o)
           e == catchFinally(Env, t)
       IN /\ dom' = e.dom
          /\ timers' = e.timers
          /\ lastOutcome' = IF ~t.threw THEN "rendered"
                            ELSE IF o.kind = "json" THEN "render_threw" ELSE o.kind
          /\ everRendered' = (everRendered \/ (~t.threw /\ t.html # <<>>))
          /\ data' = IF o.kind = "json" THEN o.doc ELSE data
  /\ handlers' = Without(handlers, i)
  /\ UNCHANGED <<variant, ai, listeners, now, ticks, files, modelCalls, submits, entered>>

\* The three-second interval started by showLoading(true) fires.
RotateTick ==
  \E h \in Running(timers, "rotate") :
    /\ dom' = rotate(Env, h).dom
    /\ timers' = rotate(Env, h).timers
    /\ UNCHANGED <<variant, ai, listeners, now, ticks, files, handlers, lastOutcome,
                   everRendered, modelCalls, submits, entered, data>>

\* One second passes on the page of index.tsx; the one-second interval of
\* setDeadline fires when it is running.  It never is: setDeadline is a
\* statement of the script that does not load.
SecondPasses ==
  /\ ticks < MaxTicks
  /\ variant = "index.tsx"
  /\ now' = now + CountdownPeriod
  /\ ticks' = ticks + 1
  /\ LET e == IF Running(timers, "updateCountdown") # {}
              THEN updateCountdown(Env, now') ELSE Env
     IN dom' = e.dom /\ timers' = e.timers
  /\ UNCHANGED <<variant, ai, listeners, files, handlers, lastOutcome, everRendered,
                 modelCalls, submits, entered, data>>

\* ------------------------------------------------------------ specification

\* The constructor of the client returns or throws (no API key).  index.tsx
\* never runs the statement that creates the client.
Init ==
  /\ variant \in Variants
  /\ ai \in BOOLEAN
  /\ ~ScriptLoads(variant) => ~ai
  /\ now \in (IF variant = "index.tsx" THEN StartClocks ELSE {deadline})
  /\ dom = AppStart(variant, ai, now).env.dom
  /\ timers = AppStart(variant, ai, now).env.timers
  /\ listeners = AppStart(variant, ai, now).listeners
  /\ ticks = 0
  /\ files = <<>>
  /\ handlers = <<>>
  /\ lastOutcome = "none"
  /\ everRendered = FALSE
  /\ modelCalls = 0
  /\ submits = 0
  /\ entered = 0
  /\ data = NoData

Next ==
  \/ SelectFile
  \/ SubmitDefault
  \/ Submit
  \/ \E i \in 1..Len(handlers) : ReaderLoadEnd(i)
  \/ \E i \in 1..Len(handlers) : ModelSettle(i)
  \/ RotateTick
  \/ SecondPasses

Spec == Init /\ [][Next]_vars

\* Every FileReader fires loadend and every model call settles.
FairSpec ==
  /\ Init
  /\ [][Next]_vars
  /\ \A i \in 1..MaxSubmits : WF_vars(i <= Len(handlers) /\ ReaderLoadEnd(i))
  /\ \A i \in 1..MaxSubmits : WF_vars(i <= Len(handlers) /\ ModelSettle(i))


\* ------------------------------------------------------------------- claims

\* the running loading-message rotation timers
Rotations == Running(timers, "rotate")

\* the running deadline countdown timers
Countdowns == Running(timers, "updateCountdown")

\* a submit event on the form
SubmitEvent == submits' = submits + 1

\* a step in which the submit listener runs
SubmitStep == SubmitEvent /\ "submit" \in listeners

\* what the listener does with an empty file list
NoFileOutcome ==
  /\ ~dom'.errorHidden
  /\ dom'.errorHTML = ErrorHTML(MsgPleaseUpload)
  /\ modelCalls' = modelCalls
  /\ handlers' = handlers
  /\ entered' = entered
  /\ dom'.loadingHidden
  /\ ~dom'.submitDisabled

\* C1: a submit event with no file selected, in whatever state the form is,
\* shows the error panel with "Please upload your CV file.", makes no model
\* call, starts no handler, does not enter Loading and leaves the submit
\* control enabled.
C1_NoFileNoCall ==
  [][ (SubmitEvent /\ files = <<>>) => NoFileOutcome ]_vars

\* the same, of the submit events that a registered listener receives
C1_ListenerNoFile ==
  [][ (SubmitStep /\ files = <<>>) => NoFileOutcome ]_vars

\* what the listener does with a file of a type it does not allow
BadTypeOutcome ==
  /\ ~dom'.errorHidden
  /\ dom'.errorHTML = ErrorHTML(MsgInvalidType)
  /\ modelCalls' = modelCalls
  /\ handlers' = handlers
  /\ entered' = entered
  /\ dom'.loadingHidden

\* C2: a submit event with a file whose MIME type is neither PDF nor DOCX
\* shows the error panel with the "Invalid file type" message, makes no
\* model call and does not enter Loading.
C2_BadTypeNoCall ==
  [][ (SubmitEvent /\ files # <<>> /\ FirstFile(files).type \notin {PDF, DOCX}) =>
        BadTypeOutcome ]_vars

\* the same, of the submit events that a registered listener receives
C2_ListenerBadType ==
  [][ (SubmitStep /\ files # <<>> /\ FirstFile(files).type \notin {PDF, DOCX}) =>
        BadTypeOutcome ]_vars

\* C3: when a handler that entered Loading finishes after a failure (the
\* model call rejected, the response had no text or did not parse, or a
\* renderer threw part-way), the error panel is visible, the loading section
\* hidden, the submit control enabled and the results area empty.
C3_FailureShowsError ==
  [][ (Len(handlers') < Len(handlers) /\ lastOutcome' # "rendered") =>
        /\ ~dom'.errorHidden
        /\ dom'.loadingHidden
        /\ ~dom'.submitDisabled
        /\ dom'.resultsHTML = <<>> ]_vars

\* a renderer threw part-way, after an earlier submission had rendered results
C3_Witness ==
  /\ lastOutcome = "render_threw"
  /\ everRendered
  /\ handlers = <<>>
  /\ ~dom.errorHidden
  /\ dom.resultsHTML = <<>>

\* C4: at most one submission is in flight, and the submit control is
\* disabled for as long as one is.
C4_OneInFlight ==
  /\ Len(handlers) <= 1
  /\ handlers # <<>> => dom.submitDisabled

\* the second submission of a session is in flight, waiting for the model
C4_Witness ==
  /\ entered = 2
  /\ Len(handlers) = 1
  /\ handlers[1].pc = "await_model"
  /\ dom.submitDisabled

\* C5: every submission that enters Loading eventually leaves it, with the
\* results rendered or the error panel shown.
C5_LoadingEnds ==
  (~dom.loadingHidden) ~>
     (dom.loadingHidden /\ (lastOutcome = "rendered" \/ ~dom.errorHidden))

\* C6: once the reader has finished with an error, fileToGenerativePart has
\* rejected and the handler has run its catch branch: no handler is left
\* waiting on a read that failed.
C6_ReadFailureRejects ==
  \A i \in 1..Len(handlers) : handlers[i].read # "failed"

\* C7: the rotation timer runs exactly while the loading section is shown,
\* there is at most one, it is the one messageInterval names, and none runs
\* when no handler is in flight.
C7_RotationTimer ==
  /\ Cardinality(Rotations) <= 1
  /\ (Rotations # {}) <=> ~dom.loadingHidden
  /\ Rotations \subseteq {timers.messageInterval}
  /\ handlers = <<>> => Rotations = {}

\* the second Loading of a session runs one rotation timer, the first is gone
C7_Witness ==
  /\ entered = 2
  /\ ~dom.loadingHidden
  /\ Rotations = {timers.messageInterval}

\* C8: on the page of index.tsx the display is the remaining time at the
\* latest second while the deadline lies ahead, with the countdown timer
\* running; from the deadline on it reads "The deadline has passed." and
\* the timer is cancelled.
C8_Countdown ==
  variant = "index.tsx" =>
    IF deadline - now <= 0
    THEN dom.deadlineCountdown = DeadlinePassed /\ Countdowns = {}
    ELSE dom.deadlineCountdown = FormatCountdown(deadline - now) /\ Countdowns # {}

\* C9: a page without a model client shows the configuration error in
\* place of the form, has no submit listener, makes no model call and never
\* enters Loading.
C9_ConfigError ==
  ~ai =>
    /\ dom.inputHTML = "config-error"
    /\ "submit" \notin listeners
    /\ modelCalls = 0
    /\ entered = 0
    /\ handlers = <<>>
    /\ dom.loadingHidden


\* -------------------------------------------- renderResults on its own inputs

Sections ==
  {"profile", "chevening_trio", "ranked_courses", "personal_statement_bullets",
   "alternatives", "notes"}

Pick(seq, i) == seq[((i - 1) % Len(seq)) + 1]

\* a list of n distinct texts
TextList(n) == [i \in 1..n |-> "text " \o ToString(i)]

\* the length of the j-th list of the document of pattern k: neighbouring
\* lists get different lengths, between 0 and MaxList
LenOf(j, k) == (j + k) % (MaxList + 1)

University(i) == Pick(<<"Leeds", "York", "Bath">>, i)
Programme(i) == Pick(<<"MSc AI", "Exec Mba", "MB Arts", "MBA">>, i)

\* one well-formed value of each section of the response schema
SectionValue(name, k) ==
  CASE name = "profile" ->
         [strengths |-> TextList(LenOf(1, k)), gaps |-> TextList(LenOf(2, k))]
    [] name = "chevening_trio" ->
         [i \in 1..LenOf(3, k) |->
            [university |-> University(i + k), programme |-> Programme(i + k),
             why_this_trio |-> "why " \o ToString(i)]]
    [] name = "ranked_courses" ->
         [i \in 1..LenOf(4, k) |->
            [rank |-> i, university |-> University(i), programme |-> Programme(i),
             city |-> "Leeds", url |-> "https://course.example",
             start_cycle |-> "Sep 2026", duration_months |-> 12,
             fee_gbp |-> Pick(<<"GBP 18000", "Verify on site">>, i + k),
             chevening_rationale |-> TextList(LenOf(i, k)),
             eligibility_check |-> [is_eligible |-> (i + k) % 2 = 0,
                                    reason |-> "reason " \o ToString(i)],
             score_breakdown |-> "score " \o ToString(i)]]
    [] name = "personal_statement_bullets" ->
         [leadership |-> TextList(LenOf(5, k)), networking |-> TextList(LenOf(6, k)),
          career_plan |-> TextList(LenOf(7, k))]
    [] name = "alternatives" ->
         [i \in 1..LenOf(8, k) |->
            [university |-> University(i), programme |-> Programme(i + 1),
             url |-> "https://alt.example", why_consider |-> "consider " \o ToString(i)]]
    [] name = "notes" -> TextList(LenOf(9, k))

\* the well-formed document of pattern k that has exactly the sections in S
Doc(S, k) == [name \in S |-> SectionValue(name, k)]

\* the well-formed documents: every subset of the six sections, in every
\* length pattern
WellFormedDocs == {Doc(S, k) : S \in SUBSET Sections, k \in 0..MaxList}

\* the record r without its field f
Drop(r, f) == [x \in (DOMAIN r) \ {f} |-> r[x]]

\* Documents with one section whose value lacks a sub-field its fragment
\* generator reads.
LackingDocs ==
  { [profile |-> [gaps |-> <<"no UK ties">>]],
    [profile |-> [strengths |-> <<"led a team">>]],
    [chevening_trio |-> <<[university |-> "Leeds", why_this_trio |-> "best fit"]>>],
    [ranked_courses |-> <<Drop(WellFormedCourse, "programme")>>],
    [ranked_courses |-> <<Drop(WellFormedCourse, "chevening_rationale")>>],
    [personal_statement_bullets |->
       [networking |-> <<"alumni">>, career_plan |-> <<"return home">>]],
    [personal_statement_bullets |->
       [leadership |-> <<"led a team">>, networking |-> <<"alumni">>]],
    [alternatives |-> <<[university |-> "York", url |-> "https://york.example",
                         why_consider |-> "cheaper"]>>] }

\* every trio of up to MaxTrio entries over two universities
Trios ==
  UNION { [1..n -> {"Leeds", "York"}] : n \in 0..MaxTrio }

TrioDocs ==
  { [chevening_trio |->
       [i \in 1..Len(us) |-> [university |-> us[i], programme |-> Programme(i),
                              why_this_trio |-> "why " \o ToString(i)]]] : us \in Trios }

\* a ranked course whose eligibility check is absent, passed or failed
CourseWith(i, e) ==
  LET c == [WellFormedCourse EXCEPT !.rank = i, !.programme = Programme(i)] IN
  CASE e = "absent" -> Drop(c, "eligibility_check")
    [] e = "eligible" ->
         [c EXCEPT !.eligibility_check = [is_eligible |-> TRUE, reason |-> "Passes all checks"]]
    [] e = "ineligible" ->
         [c EXCEPT !.eligibility_check =
            [is_eligible |-> FALSE, reason |-> "Ineligible: duration is over 12 months"]]

\* every ranked list of up to MaxList courses over the three eligibility cases
EligibilityDocs ==
  { [ranked_courses |-> [i \in 1..Len(es) |-> CourseWith(i, es[i])]] :
      es \in UNION { [1..n -> {"absent", "eligible", "ineligible"}] : n \in 0..MaxList } }

\* The documents renderResults is run on in RenderSpec: the well-formed
\* documents, the documents of Spec, JSON null, documents with a sub-field
\* missing, the trios and the eligibility cases.
RenderDocs ==
  WellFormedDocs \cup ResponseDocs \cup {NoData} \cup LackingDocs \cup TrioDocs
  \cup EligibilityDocs

\* The page of either variant, loaded with a client, about to call
\* renderResults(data).
RenderInit ==
  /\ variant \in Variants
  /\ ai = ScriptLoads(variant)
  /\ now = deadline
  /\ dom = AppStart(variant, ai, now).env.dom
  /\ timers = AppStart(variant, ai, now).env.timers
  /\ listeners = AppStart(variant, ai, now).listeners
  /\ ticks = 0
  /\ files = <<>>
  /\ handlers = <<>>
  /\ lastOutcome = "none"
  /\ everRendered = FALSE
  /\ modelCalls = 0
  /\ submits = 0
  /\ entered = 0
  /\ data \in RenderDocs

\* renderResults(data) runs; a throw leaves what was appended so far.  In a
\* script that did not load nothing runs and the results area stays as it is.
RenderStep ==
  /\ lastOutcome = "none"
  /\ LET r == renderResults(variant, data) IN
       IF r = SyntaxError
       THEN dom' = dom /\ lastOutcome' = "syntax_error"
       ELSE /\ dom' = [dom EXCEPT !.resultsHTML = r.html]
            /\ lastOutcome' = IF r.threw THEN "render_threw" ELSE "rendered"
  /\ UNCHANGED <<variant, ai, listeners, timers, now, ticks, files, handlers,
                 everRendered, modelCalls, submits, entered, data>>

RenderNext == RenderStep

RenderSpec == RenderInit /\ [][RenderNext]_vars

\* ------------------------------------------------ reading the rendered HTML
\* (what the claims about the renderer look at in the results area)

DivOpens ==
  {"<div id=profile-analysis-section class=result-category>",
   "<div class=result-category>",
   "<div class=result-category personal-statement-bullets>",
   "<div class=profile-columns>", "<div class=profile-column>",
   "<div class=trio-card>", "<div class=course-card>", "<div class=details>",
   "<div class=chevening-rationale>"}

Count(html, toks) == Cardinality({i \in 1..Len(html) : html[i] \in toks})

\* how many div elements are open after the first i tokens
DepthAt(html, i) ==
  Count(SubSeq(html, 1, i), DivOpens) - Count(SubSeq(html, 1, i), {"</div>"})

\* where the top-level elements of the results area start
BlockStarts(html) ==
  {i \in 1..Len(html) : DepthAt(html, i - 1) = 0}

\* the top-level elements of the results area, in document order
Blocks(html) ==
  LET starts == BlockStarts(html)
      nth(n) == CHOOSE i \in starts : Cardinality({j \in starts : j < i}) = n - 1
      end(i) == CHOOSE j \in i..Len(html) :
                   /\ DepthAt(html, j) = 0
                   /\ \A m \in i..(j - 1) : DepthAt(html, m) > 0
  IN [n \in 1..Cardinality(starts) |-> SubSeq(html, nth(n), end(nth(n)))]

\* the text of the h2 heading of a block ("" when it has none)
HeadingOf(block) ==
  IF \E i \in 1..(Len(block) - 1) : block[i] = "<h2>"
  THEN block[(CHOOSE i \in 1..(Len(block) - 1) :
                 block[i] = "<h2>" /\ \A j \in 1..(i - 1) : block[j] # "<h2>") + 1]
  ELSE ""

\* the number of li items of each ul list of a block, in document order
UlCounts(block) ==
  LET uls == {i \in 1..Len(block) : block[i] = "<ul>"}
      nth(n) == CHOOSE i \in uls : Cardinality({j \in uls : j < i}) = n - 1
      close(i) == CHOOSE j \in i..Len(block) :
                     block[j] = "</ul>" /\ \A m \in i..(j - 1) : block[m] # "</ul>"
  IN [n \in 1..Cardinality(uls) |->
        Count(SubSeq(block, nth(n), close(nth(n))), {"<li>"})]

\* a section block: a div of class result-category
IsSectionBlock(block) ==
  Head(block) \in {"<div id=profile-analysis-section class=result-category>",
                   "<div class=result-category>",
                   "<div class=result-category personal-statement-bullets>"}

\* the headings of the six sections in the fixed order
FixedOrder ==
  <<TitleProfile, TitleTrio, TitleRanked, TitleBullets, TitleAlternatives, TitleNotes>>

\* the block holds as many entries as the lists of its section
EntriesMatch(block, name, value) ==
  CASE name = "profile" ->
         UlCounts(block) = <<Len(value.strengths), Len(value.gaps)>>
    [] name = "chevening_trio" ->
         Count(block, {"<div class=trio-card>"}) = Len(value)
    [] name = "ranked_courses" ->
         /\ Count(block, {"<div class=course-card>"}) = Len(value)
         /\ UlCounts(block) = [i \in 1..Len(value) |-> Len(value[i].chevening_rationale)]
    [] name = "personal_statement_bullets" ->
         UlCounts(block) = <<Len(value.leadership), Len(value.networking),
                             Len(value.career_plan)>>
    [] name = "alternatives" ->
         Count(block, {"<div class=course-card>"}) = Len(value)
    [] name = "notes" -> UlCounts(block) = <<Len(value)>>

SectionNames ==
  <<"profile", "chevening_trio", "ranked_courses", "personal_statement_bullets",
    "alternatives", "notes">>

\* a well-formed document with all six sections
AllSixPresent(d) == \E k \in 0..MaxList : d = Doc(Sections, k)

\* the results area holds the six section blocks of d, in the fixed order,
\* each with the entries of its list
SixBlocksInOrder(html, d) ==
  LET blocks == Blocks(html) IN
  /\ Len(blocks) = 6
  /\ \A n \in 1..6 :
       /\ IsSectionBlock(blocks[n])
       /\ HeadingOf(blocks[n]) = FixedOrder[n]
       /\ EntriesMatch(blocks[n], SectionNames[n], d[SectionNames[n]])

\* C10: once renderResults has run on a well-formed document with all six
\* sections, the results area holds exactly six section blocks, in the order
\* profile analysis, trio, ranked courses, bullets, alternatives, notes, each
\* with as many entries as its list.
C10_SixBlocks ==
  (lastOutcome \notin {"none", "syntax_error"} /\ AllSixPresent(data)) =>
     (lastOutcome = "rendered" /\ SixBlocksInOrder(dom.resultsHTML, data))

\* the headings of the top-level blocks of the results area, in order
Headings(html) == [n \in 1..Len(Blocks(html)) |-> HeadingOf(Blocks(html)[n])]

\* the place of a section heading in the fixed order
PlaceOf(title) == CHOOSE n \in 1..6 : FixedOrder[n] = title

\* the section whose block has the given heading
SectionOf(title) == SectionNames[PlaceOf(title)]

\* the headings of the sections that d has, in the fixed order
PresentHeadings(d) ==
  LET Present(title) == Has(d, SectionOf(title))
  IN SelectSeq(FixedOrder, Present)

\* C11: once renderResults has been called on a ResultDocument with any
\* subset of the six sections, the results area has no heading and no block
\* of a missing section, and has the blocks of the sections present, one
\* each, in the fixed order.
C11_MissingOmitted ==
  (lastOutcome # "none" /\ ~Has(data, "null")) =>
     /\ \A n \in 1..6 :
          ~Has(data, SectionNames[n]) => Count(dom.resultsHTML, {FixedOrder[n]}) = 0
     /\ \A a \in 1..Len(Blocks(dom.resultsHTML)) :
          IsSectionBlock(Blocks(dom.resultsHTML)[a])
     /\ Headings(dom.resultsHTML) = PresentHeadings(data)

\* the same, of the sections other than profile on the pages whose script
\* renders, for the well-formed documents
C11_OmittedButProfile ==
  (lastOutcome \notin {"none", "syntax_error"} /\ data \in WellFormedDocs) =>
     /\ \A n \in 1..6 :
          ~Has(data, SectionNames[n]) => Count(dom.resultsHTML, {FixedOrder[n]}) = 0
     /\ Headings(dom.resultsHTML)
          = PresentHeadings([x \in (DOMAIN data) \ {"profile"} |-> data[x]])

\* the section value lacks a sub-field its fragment generator reads
LacksSubField(name, value) ==
  CASE name = "profile" -> ~Has(value, "strengths") \/ ~Has(value, "gaps")
    [] name = "chevening_trio" ->
         \E i \in 1..Len(value) : ~Has(value[i], "programme")
    [] name = "ranked_courses" ->
         \E i \in 1..Len(value) :
            ~Has(value[i], "programme") \/ ~Has(value[i], "chevening_rationale")
    [] name = "personal_statement_bullets" ->
         ~Has(value, "leadership") \/ ~Has(value, "networking")
         \/ ~Has(value, "career_plan")
    [] name = "alternatives" ->
         \E i \in 1..Len(value) : ~Has(value[i], "programme")
    [] name = "notes" -> FALSE

\* C12: a fragment generator called on a section value that lacks a
\* required sub-field returns the empty fragment and does not throw.
C12_EmptyFragments ==
  (lastOutcome \notin {"none", "syntax_error"} /\ ~Has(data, "null")) =>
     \A name \in DOMAIN data :
        LacksSubField(name, data[name]) =>
           renderSection(variant, name, data[name]) = Ok(<<>>)

\* the top-level block of the results area with the given heading
SectionBlock(html, title) ==
  LET bs == Blocks(html) IN bs[CHOOSE n \in 1..Len(bs) : HeadingOf(bs[n]) = title]

\* the cards of a section block: its child div elements of the given class
Cards(block, open) ==
  LET IsCard(b) == Head(b) = open
  IN SelectSeq(Blocks(SubSeq(block, 2, Len(block) - 1)), IsCard)

\* all entries of the trio name the same university
SameUniversity(trio) ==
  \A i, j \in 1..Len(trio) : trio[i].university = trio[j].university

\* C13: the rendered trio has the diversification advisory exactly once
\* when the trio has more than one entry and one university, and not at
\* all when it has one entry or two different universities.
C13_TrioAdvisory ==
  (lastOutcome \notin {"none", "syntax_error"}
     /\ data \in TrioDocs \cup WellFormedDocs /\ Has(data, "chevening_trio")) =>
     LET trio == data.chevening_trio
         expected == IF Len(trio) > 1 /\ SameUniversity(trio) THEN 1 ELSE 0
     IN /\ lastOutcome = "rendered"
        /\ Count(dom.resultsHTML, {"<p class=trio-warning>"}) = expected
        /\ Count(dom.resultsHTML, {"All three choices are from the same university"})
             = expected
        /\ Len(Cards(SectionBlock(dom.resultsHTML, TitleTrio), "<div class=trio-card>"))
             = Len(trio)

\* the text that follows the first token tok of a card ("" when tok is absent)
TextAfter(card, tok) ==
  IF \E j \in 1..(Len(card) - 1) : card[j] = tok
  THEN card[(CHOOSE j \in 1..(Len(card) - 1) :
                card[j] = tok /\ \A m \in 1..(j - 1) : card[m] # tok) + 1]
  ELSE ""

\* the card shows the outcome of the eligibility check of its course
CardShowsEligibility(card, course) ==
  LET eligible == Count(card, {"<span class=eligibility-badge>"})
      ineligible == Count(card, {"<span class=eligibility-badge ineligible>"})
      reasons == Count(card, {"<p class=ineligible-reason>"})
  IN IF ~Has(course, "eligibility_check")
     THEN eligible = 0 /\ ineligible = 0 /\ reasons = 0
     ELSE IF course.eligibility_check.is_eligible
     THEN /\ eligible = 1 /\ ineligible = 0 /\ reasons = 0
          /\ TextAfter(card, "<span class=eligibility-badge>") = "Chevening-eligible"
          /\ Count(card, {course.eligibility_check.reason}) = 0
     ELSE /\ eligible = 0 /\ ineligible = 1 /\ reasons = 1
          /\ TextAfter(card, "<span class=eligibility-badge ineligible>") = "Ineligible"
          /\ TextAfter(card, "<p class=ineligible-reason>") = course.eligibility_check.reason

\* C14: the card of every ranked course has the ineligible badge and the
\* reason when is_eligible is false, the eligible badge and no reason when
\* it is true, and neither without an eligibility_check.
C14_EligibilityBadge ==
  (lastOutcome \notin {"none", "syntax_error"}
     /\ data \in EligibilityDocs \cup WellFormedDocs /\ Has(data, "ranked_courses")) =>
     LET courses == data.ranked_courses
         cards == Cards(SectionBlock(dom.resultsHTML, TitleRanked), "<div class=course-card>")
     IN /\ lastOutcome = "rendered"
        /\ Len(cards) = Len(courses)
        /\ \A i \in 1..Len(courses) : CardShowsEligibility(cards[i], courses[i])

\* the programme names of the documents that contain "mba" in some letter case
MbaProgrammes == {"MBA", "Exec Mba"}

\* every card of the block carries the advisory exactly when its entry is an MBA
CardsShowMba(cards, entries) ==
  /\ Len(cards) = Len(entries)
  /\ \A i \in 1..Len(entries) :
       Count(cards[i], {"<p class=mba-warning>"})
         = IF entries[i].programme \in MbaProgrammes THEN 1 ELSE 0

\* the rendered ranked courses and trio entries carry the MBA advisory
\* exactly when they should
MbaAdvisoryOk ==
  /\ lastOutcome = "rendered"
  /\ Has(data, "ranked_courses") =>
       CardsShowMba(Cards(SectionBlock(dom.resultsHTML, TitleRanked),
                          "<div class=course-card>"), data.ranked_courses)
  /\ Has(data, "chevening_trio") =>
       CardsShowMba(Cards(SectionBlock(dom.resultsHTML, TitleTrio),
                          "<div class=trio-card>"), data.chevening_trio)

\* C15: every rendered entry of the ranked-course list and of the trio
\* carries the MBA fee-cap advisory if and only if its programme name
\* contains "mba" in some letter case.
C15_MbaAdvisory ==
  (lastOutcome \notin {"none", "syntax_error"} /\ data \in WellFormedDocs \cup TrioDocs \cup EligibilityDocs)
     => MbaAdvisoryOk

\* a handler has run to its end in this step, and its rendering succeeded
SuccessStep == Len(handlers') < Len(handlers) /\ lastOutcome' = "rendered"

\* C16: when a submission whose file read, model call, JSON parse and
\* rendering all succeed finishes, the loading section is hidden, the input
\* section is visible, the submit button is enabled, the error panel is
\* hidden, and the results area holds the rendering of this response alone.
C16_SuccessShowsResults ==
  [][SuccessStep =>
       /\ dom'.loadingHidden
       /\ ~dom'.inputHidden
       /\ ~dom'.submitDisabled
       /\ dom'.errorHidden
       /\ dom'.resultsHTML = renderResults(variant, data').html
       /\ \A n \in 1..6 :
            ~Has(data', SectionNames[n]) => Count(dom'.resultsHTML, {FixedOrder[n]}) = 0
       /\ Count(dom'.resultsHTML, {"<h2>"}) <= Cardinality(DOMAIN data')]_vars

\* the second submission finished with the notes-only response rendered
C16_Witness ==
  /\ lastOutcome = "rendered"
  /\ entered = 2
  /\ modelCalls = 2
  /\ handlers = <<>>
  /\ data = NotesDoc
  /\ Headings(dom.resultsHTML) = <<TitleNotes>>
  /\ dom.loadingHidden /\ ~dom.inputHidden /\ dom.errorHidden

\* the handlers that have not passed their await on the file encoding
AwaitingFile == {i \in 1..Len(handlers) : handlers[i].pc = "await_file"}

\* C17: a model call is made only by a handler whose file encoding has just
\* completed, one call at a time, and the calls made never outnumber the
\* submissions that entered Loading and have passed the encoding.
C17_OneCallAfterEncoding ==
  /\ [](modelCalls + Cardinality(AwaitingFile) <= entered)
  /\ [][modelCalls' # modelCalls =>
          /\ modelCalls' = modelCalls + 1
          /\ Len(handlers') = Len(handlers)
          /\ \E i \in 1..Len(handlers) :
               /\ handlers[i].pc = "await_file"
               /\ handlers'[i].pc = "await_model"
               /\ handlers'[i].read = "loaded"]_vars

\* two submissions, two calls, the second of which the service rejected
C17_Witness ==
  /\ entered = 2
  /\ modelCalls = 2
  /\ handlers = <<>>
  /\ lastOutcome = "reject_error"

\* C18: the loading section and the input section are never both visible;
\* while the loading section is visible the results area is empty and the
\* error panel is hidden; the error panel is never visible while the results
\* area is non-empty.
C18_PanelsExclusive ==
  /\ ~(~dom.loadingHidden /\ ~dom.inputHidden)
  /\ ~dom.loadingHidden => (dom.resultsHTML = <<>> /\ dom.errorHidden)
  /\ ~(~dom.errorHidden /\ dom.resultsHTML # <<>>)

\* the loading section is up for a second submission after results were shown
C18_Witness ==
  /\ everRendered
  /\ entered = 2
  /\ ~dom.loadingHidden
  /\ dom.inputHidden
  /\ dom.resultsHTML = <<>>

====
